---- MODULE Spec2Model ----
(***************************************************************************)
(* Playback Scheduler of srit: the SpeedReader class of lib/display.js.    *)
(*                                                                         *)
(* One behaviour is one SpeedReader instance from construction on.  The    *)
(* instance fields, the timers pending in the event loop, the state of    *)
(* stdin and the 'done' notifications emitted so far are the record rd;    *)
(* the constructor arguments are fixed by Init.  Every handler (start,     *)
(* a keypress, a signal, each timer callback) is one atomic action, as    *)
(* JavaScript runs each callback to completion.                            *)
(*                                                                         *)
(* Timer delays are not modelled: a pending timer may fire at any later    *)
(* moment, which includes every order the real delays allow.  Rendering    *)
(* and the display statistics of auto mode (totalDisplayTime,              *)
(* wordsDisplayed) only feed the screen and are left out.  gamma is kept   *)
(* in tenths (6 is 0.6).                                                   *)
(*                                                                         *)
(* Further specifications share the variables: SpecPacing (the reader's    *)
(* effective duration under live speed and gamma changes), SpecChunks      *)
(* (chunkPlan), SpecDurations (computeDurations), SpecProcess (processText *)
(* with its scoring calls), SpecCache (the result cache in main's --auto   *)
(* block), SpecItemize (itemize), SpecAlign (token alignment under texts   *)
(* a tokenizer may return), SpecSchedule (playback without parameter       *)
(* changes) and SpecLive (the scheduler under fairness).  The pacing       *)
(* engine's state is the record sap.                                       *)
(***************************************************************************)
EXTENDS Integers, Sequences, FiniteSets, TLC

\* ------------------------------------------------------------ bounds
MaxWords == 2
MaxQuestions == 2
NumChoices == 2
MaxPending == 2
MaxTime == 2
MaxParamKeys == 1
MaxDone == 2

\* ------------------------------------------------- program constants
WPM_INCREMENT == 10
MIN_WPM == 50
MAX_WPM == 1000
GAMMA_INCREMENT == 1
MIN_GAMMA == 0
MAX_GAMMA == 20
DEFAULT_WPM == 300
DEFAULT_GAMMA == 6
\* this.startTime = null; null is 0 in Date.now() - this.startTime
NoTime == 0
\* this.currentQuestion = null
NoQuestion == 0
\* parseInt of a key that is no digit is NaN, which fails every comparison
NaN == -1

VARIABLES
    nWords,             \* this.words.length
    maxWords,           \* this.maxWords
    questionPositions,  \* this.questionPositions: <<[wordIndex, correct]>>
    autoMode,           \* this.autoMode
    rd,                 \* the instance fields and the event loop, see Init
    now,                \* Date.now()
    startError,         \* start() threw 'No words to display'
    sap                 \* the pacing engine at work, see the engine's Inits

vars == <<nWords, maxWords, questionPositions, autoMode, rd, now, startError, sap>>

\* the pacing engine is not at work: the reader has been handed its product
NoRun == <<>>

Max(a, b) == IF a >= b THEN a ELSE b
Min(a, b) == IF a <= b THEN a ELSE b

\* Quiz supply: entries sorted by wordIndex, positions within [0, n)
QuizEntry == [wordIndex : 0 .. (nWords - 1), correct : 0 .. (NumChoices - 1)]

IsSorted(qs) == \A i \in 1 .. (Len(qs) - 1) : qs[i].wordIndex <= qs[i + 1].wordIndex

NamedKeys == {"left", "right", "up", "down", "space", "plus", "minus", "escape"}

DigitKeys == 0 .. (NumChoices + 1)

\* ----------------------------------------------------- the handlers

PendingTimers(s) ==
    (IF s.timer = "pending" THEN 1 ELSE 0) + s.orphans + s.stopTimers + s.feedbackTimers

\* clearTimeout(this.timer); this.timer = null
ClearTimer(s) == IF s.timer # "null" THEN [s EXCEPT !.timer = "null"] ELSE s

\* the index (1-based) of the quiz entry to show now, or NoQuestion
checkForQuestion(s) ==
    IF s.questionIndex >= Len(questionPositions) THEN NoQuestion
    ELSE IF s.currentIndex >= questionPositions[s.questionIndex + 1].wordIndex
         THEN s.questionIndex + 1
         ELSE NoQuestion

\* this.timer = setTimeout(...): the handle is overwritten; a timer it still
\* referred to stays pending in the event loop
ArmTimer(s) ==
    [s EXCEPT !.timer = "pending",
              !.orphans = IF s.timer = "pending" THEN @ + 1 ELSE @]

scheduleNext(s) ==
    IF ~s.running \/ s.paused \/ s.inQuestionMode THEN s
    ELSE IF checkForQuestion(s) # NoQuestion
         THEN [s EXCEPT !.inQuestionMode = TRUE,
                        !.currentQuestion = checkForQuestion(s)]
         ELSE ArmTimer(s)

\* mutant of timerCallback: the cutoff compared with maxWords, not maxWords - 1
timerCallback_CutoffOffByOne(s) ==
    LET reachedMaxWords == maxWords > 0 /\ s.currentIndex >= maxWords
    IN  IF s.currentIndex < nWords - 1 /\ ~reachedMaxWords
        THEN scheduleNext([s EXCEPT !.currentIndex = @ + 1])
        ELSE [s EXCEPT !.stopTimers = @ + 1]

\* the callback of the presentation timer
timerCallback(s) ==
    LET reachedMaxWords == maxWords > 0 /\ s.currentIndex >= maxWords - 1
    IN  IF s.currentIndex < nWords - 1 /\ ~reachedMaxWords
        THEN scheduleNext([s EXCEPT !.currentIndex = @ + 1])
        ELSE [s EXCEPT !.stopTimers = @ + 1]

reschedule(s) ==
    LET c == ClearTimer(s)
    IN  IF ~c.paused THEN scheduleNext(c) ELSE c

\* mutant of StopResult: the result is built only when the score is not zero
StopResult_ScoreTested(s, elapsed) ==
    IF s.score > 0
    THEN <<s.score, Len(questionPositions), elapsed>>
    ELSE <<>>

\* the payload of 'done': <<>> is null
StopResult(s, elapsed) ==
    IF Len(questionPositions) > 0
    THEN <<s.score, Len(questionPositions), elapsed>>
    ELSE <<>>

stop(s) ==
    LET elapsed == now - s.startTime
        c == ClearTimer(s)
    IN  [c EXCEPT !.running = FALSE,
                  !.elapsedTime = elapsed,
                  !.stdinFlowing = FALSE,
                  !.done = Append(@, StopResult(s, elapsed))]

\* mutant of handleQuestionInput: the lower bound of a choice taken as 0
handleQuestionInput_ZeroAccepted(s, num) ==
    IF num >= 0 /\ num <= NumChoices
    THEN LET isCorrect == (num - 1) = questionPositions[s.currentQuestion].correct
         IN  [s EXCEPT !.score = IF isCorrect THEN @ + 1 ELSE @,
                       !.feedbackTimers = @ + 1]
    ELSE s

handleQuestionInput(s, num) ==
    IF num >= 1 /\ num <= NumChoices
    THEN LET isCorrect == (num - 1) = questionPositions[s.currentQuestion].correct
         IN  [s EXCEPT !.score = IF isCorrect THEN @ + 1 ELSE @,
                       !.feedbackTimers = @ + 1]
    ELSE s

\* mutant of feedbackCallback: the presentation is not taken up again
feedbackCallback_NoScheduleNext(s) ==
    [s EXCEPT !.inQuestionMode = FALSE,
              !.currentQuestion = NoQuestion,
              !.questionIndex = @ + 1]

\* the callback of the feedback timer
feedbackCallback(s) ==
    scheduleNext([s EXCEPT !.inQuestionMode = FALSE,
                           !.currentQuestion = NoQuestion,
                           !.questionIndex = @ + 1])

goBack(s) ==
    IF s.currentIndex > 0
    THEN reschedule([s EXCEPT !.currentIndex = @ - 1])
    ELSE s

\* mutant of goForward: the last item is not tested for
goForward_NoBound(s) == reschedule([s EXCEPT !.currentIndex = @ + 1])

goForward(s) ==
    IF s.currentIndex < nWords - 1
    THEN reschedule([s EXCEPT !.currentIndex = @ + 1])
    ELSE s

\* mutant of SetWpm: the value is clamped from below only
SetWpm_NoUpperClamp(s, value) ==
    [s EXCEPT !.wpm = Max(MIN_WPM, value), !.changes = @ + 1]

SetWpm(s, value) ==
    [s EXCEPT !.wpm = Max(MIN_WPM, Min(MAX_WPM, value)), !.changes = @ + 1]

increaseSpeed(s) == reschedule(SetWpm(s, s.wpm + WPM_INCREMENT))

decreaseSpeed(s) == reschedule(SetWpm(s, s.wpm - WPM_INCREMENT))

increaseGamma(s) ==
    reschedule([s EXCEPT !.gamma = Min(MAX_GAMMA, @ + GAMMA_INCREMENT), !.changes = @ + 1])

decreaseGamma(s) ==
    reschedule([s EXCEPT !.gamma = Max(MIN_GAMMA, @ - GAMMA_INCREMENT), !.changes = @ + 1])

togglePause(s) ==
    IF s.paused
    THEN scheduleNext([s EXCEPT !.paused = FALSE])
    ELSE ClearTimer([s EXCEPT !.paused = TRUE])

\* mutant of start: the empty check made after running and startTime are set
start_LateCheck(s) ==
    LET b == [s EXCEPT !.running = TRUE, !.startTime = now]
    IN  IF nWords = 0 THEN b
        ELSE scheduleNext([b EXCEPT !.stdinFlowing = TRUE])

\* start() up to its first await; on an empty word list it throws before
\* it touches anything
start(s) ==
    IF nWords = 0 THEN s
    ELSE scheduleNext([s EXCEPT !.running = TRUE, !.startTime = now,
                                !.stdinFlowing = TRUE])

\* mutant of onKeypress: the keys are dispatched without the question-mode test
onKeypress_NoQuestionTest(s, name, num) ==
    IF name = "escape" THEN stop(s)
    ELSE CASE name = "left" -> goBack(s)
           [] name = "right" -> goForward(s)
           [] name = "up" -> increaseSpeed(s)
           [] name = "down" -> decreaseSpeed(s)
           [] name = "space" -> togglePause(s)
           [] name = "plus" /\ autoMode -> increaseGamma(s)
           [] name = "minus" /\ autoMode -> decreaseGamma(s)
           [] OTHER -> IF s.inQuestionMode THEN handleQuestionInput(s, num) ELSE s

\* the 'keypress' listener; num is parseInt(str, 10)
onKeypress(s, name, num) ==
    IF name = "escape" THEN stop(s)
    ELSE IF s.inQuestionMode THEN handleQuestionInput(s, num)
    ELSE CASE name = "left" -> goBack(s)
           [] name = "right" -> goForward(s)
           [] name = "up" -> increaseSpeed(s)
           [] name = "down" -> decreaseSpeed(s)
           [] name = "space" -> togglePause(s)
           [] name = "plus" /\ autoMode -> increaseGamma(s)
           [] name = "minus" /\ autoMode -> decreaseGamma(s)
           [] OTHER -> s

\* the counters that have no bound of their own stay within the model's
Within(s) ==
    /\ PendingTimers(s) <= MaxPending
    /\ s.changes <= MaxParamKeys

\* ------------------------------------------------------- the actions

Init ==
    /\ nWords \in 0 .. MaxWords
    /\ maxWords \in 0 .. MaxWords
    /\ questionPositions \in
         {qs \in UNION {[1 .. k -> QuizEntry] : k \in 0 .. MaxQuestions} : IsSorted(qs)}
    /\ autoMode \in BOOLEAN
    /\ rd = [currentIndex |-> 0, running |-> FALSE, paused |-> FALSE,
             inQuestionMode |-> FALSE, currentQuestion |-> NoQuestion,
             questionIndex |-> 0, score |-> 0,
             startTime |-> NoTime, elapsedTime |-> 0,
             wpm |-> DEFAULT_WPM, gamma |-> DEFAULT_GAMMA,
             timer |-> "null", orphans |-> 0, stopTimers |-> 0, feedbackTimers |-> 0,
             stdinFlowing |-> FALSE, changes |-> 0, done |-> <<>>]
    /\ now = 1
    /\ startError = FALSE
    /\ sap = NoRun

Config == <<nWords, maxWords, questionPositions, autoMode, sap>>

Started == rd.startTime # NoTime

\* stop() has run at least once
Stopped == Len(rd.done) > 0

\* After stop() stdin is paused, so node exits as soon as no timer is left;
\* until then the signal handlers stay installed
ProcessAlive == Started /\ (~Stopped \/ PendingTimers(rd) > 0)

\* start(): the empty-input error is raised, or the session begins
Start ==
    /\ ~Started /\ ~startError
    /\ rd' = start(rd)
    /\ startError' = (nWords = 0)
    /\ UNCHANGED <<Config, now>>

\* a key is pressed; the listener runs while stdin is flowing
Keypress ==
    \E name \in NamedKeys :
        /\ rd' = IF rd.stdinFlowing THEN onKeypress(rd, name, NaN) ELSE rd
        /\ Within(rd')
        /\ UNCHANGED <<Config, now, startError>>

KeypressDigit ==
    \E num \in DigitKeys :
        /\ rd' = IF rd.stdinFlowing THEN onKeypress(rd, "digit", num) ELSE rd
        /\ Within(rd')
        /\ UNCHANGED <<Config, now, startError>>

\* SIGINT or SIGTERM: the cleanup handler start() installed
Signal ==
    /\ ProcessAlive
    /\ Len(rd.done) < MaxDone
    /\ rd' = stop(rd)
    /\ UNCHANGED <<Config, now, startError>>

\* the presentation timer this.timer refers to fires
TimerFire ==
    /\ rd.timer = "pending"
    /\ rd' = timerCallback([rd EXCEPT !.timer = "fired"])
    /\ UNCHANGED <<Config, now, startError>>

\* a presentation timer whose handle was overwritten fires
OrphanFire ==
    /\ rd.orphans > 0
    /\ rd' = timerCallback([rd EXCEPT !.orphans = @ - 1])
    /\ UNCHANGED <<Config, now, startError>>

\* setTimeout(() => this.stop(), 500) fires
TrailingFire ==
    /\ rd.stopTimers > 0
    /\ rd' = stop([rd EXCEPT !.stopTimers = @ - 1])
    /\ UNCHANGED <<Config, now, startError>>

\* the 800 ms feedback timer fires
FeedbackFire ==
    /\ rd.feedbackTimers > 0
    /\ rd' = feedbackCallback([rd EXCEPT !.feedbackTimers = @ - 1])
    /\ UNCHANGED <<Config, now, startError>>

\* the clock advances; nothing reads it before start() does
Tick ==
    /\ Started
    /\ now < MaxTime
    /\ now' = now + 1
    /\ UNCHANGED <<Config, rd, startError>>

Next ==
    \/ Start
    \/ Keypress
    \/ KeypressDigit
    \/ Signal
    \/ TimerFire
    \/ OrphanFire
    \/ TrailingFire
    \/ FeedbackFire
    \/ Tick

Spec == Init /\ [][Next]_vars

\* ------------------------------------------------- states of the scheduler

\* DATA MODEL: PlaybackState
PlaybackState(s) ==
    <<s.currentIndex, s.running, s.paused, s.inQuestionMode, s.questionIndex,
      s.score, s.elapsedTime>>

Idle == ~Started
Playing == rd.running /\ ~rd.paused /\ ~rd.inQuestionMode
Paused == rd.running /\ rd.paused
QuestionMode == rd.running /\ rd.inQuestionMode

\* a step that executes stop(): by the escape key, a signal or the trailing timer
StopStep ==
    \/ Signal
    \/ TrailingFire
    \/ rd.stdinFlowing /\ rd' = stop(rd) /\ UNCHANGED <<Config, now, startError>>

\* ------------------------------------------------------------ claims

\* C1: in every reachable state at most one timer is pending, counting the
\* presentation timer, the end-of-text trailing timer and the feedback timer.
C1_AtMostOneTimer == PendingTimers(rd) <= 1

\* C2: stop() is idempotent: once stop() has run, a further execution of
\* stop() changes no PlaybackState field (elapsed included) and emits no
\* second 'done'.
C2_StopIdempotent ==
    [][(Stopped /\ StopStep) =>
         (PlaybackState(rd') = PlaybackState(rd) /\ rd'.done = rd.done)]_vars

\* C3: Done is terminal: once stop() has run no timer is pending, and no
\* later step changes currentIndex, paused, inQuestionMode, the quiz index or
\* the score.
C3_DoneTerminal ==
    /\ [](Stopped => PendingTimers(rd) = 0)
    /\ [][Stopped =>
            /\ rd'.currentIndex = rd.currentIndex
            /\ rd'.paused = rd.paused
            /\ rd'.inQuestionMode = rd.inQuestionMode
            /\ rd'.questionIndex = rd.questionIndex
            /\ rd'.score = rd.score]_vars

\* a presentation timer fires
FireStep == TimerFire \/ OrphanFire

\* the item at currentIndex is the last one to present
AtEnd(s) ==
    \/ s.currentIndex >= nWords - 1
    \/ maxWords > 0 /\ s.currentIndex >= maxWords - 1

\* the state in which the fire's own quiz check is made: the callback
\* advances first and scheduleNext() checks for a quiz afterwards
AfterAdvance(s) ==
    IF AtEnd(s) THEN s ELSE [s EXCEPT !.currentIndex = @ + 1]

C5_QuestionInsteadOfAdvance ==
    [][(FireStep /\ Playing /\ rd'.inQuestionMode) =>
         rd'.currentIndex = rd.currentIndex]_vars

\* a valid choice key arrives while a quiz prompt is shown
ValidChoiceStep ==
    /\ rd.stdinFlowing /\ rd.inQuestionMode
    /\ \E num \in 1 .. NumChoices : rd' = onKeypress(rd, "digit", num)
    /\ UNCHANGED <<Config, now, startError>>

\* C6: a valid choice is processed exactly once: repeating a valid choice
\* key while the prompt's answer is already being processed adds nothing to
\* the score and queues no second advance of the quiz index.
C6_ChoiceProcessedOnce ==
    [][(ValidChoiceStep /\ rd.feedbackTimers > 0) =>
         (rd'.score = rd.score /\ rd'.feedbackTimers = rd.feedbackTimers)]_vars

\* the space key resumes, the escape key or a signal stops
ResumeOrStopStep ==
    \/ Signal
    \/ /\ rd.stdinFlowing
       /\ \E name \in {"space", "escape"} : rd' = onKeypress(rd, name, NaN)
       /\ UNCHANGED <<Config, now, startError>>

\* C7: while Paused no timer is pending, and Paused is left only by resume
\* or by an explicit stop, never by a timer.
C7_PausedHasNoTimer ==
    /\ [](Paused => PendingTimers(rd) = 0)
    /\ [][(Paused /\ ~Paused') => ResumeOrStopStep]_vars

\* C8: every execution of stop() yields a result: null exactly when no quiz
\* entry was configured, otherwise <<score, total, elapsedTime>> with the
\* running score, the number of configured entries and the time since
\* start(); the start time is captured by start() and never moved afterwards.
C8_StopYieldsResult ==
    /\ [][(StopStep /\ Started) =>
            rd'.done = Append(rd.done,
                              IF Len(questionPositions) = 0 THEN <<>>
                              ELSE <<rd.score, Len(questionPositions),
                                     now - rd.startTime>>)]_vars
    /\ [][rd'.startTime = IF Started THEN rd.startTime
                          ELSE IF rd'.running THEN now ELSE NoTime]_vars

\* C8 happens: stop() ran in Paused, after time had passed, with a quiz
C8_Witness ==
    /\ Stopped /\ rd.paused
    /\ Len(rd.done[1]) = 3 /\ rd.done[1][3] > 0

\* C9: start() on an empty item sequence fails and leaves the scheduler in
\* Idle: not running, no start timestamp, no timer, no notification.
C9_EmptyStartStaysIdle ==
    /\ startError => nWords = 0
    /\ nWords = 0 =>
         /\ ~rd.running /\ rd.startTime = NoTime
         /\ PendingTimers(rd) = 0
         /\ rd.done = <<>> /\ rd.changes = 0

\* C9 happens: start() was called on an empty sequence
C9_Witness == startError /\ nWords = 0

\* a previous/next key is pressed
NavStep ==
    /\ \E name \in {"left", "right"} :
         rd' = IF rd.stdinFlowing THEN onKeypress(rd, name, NaN) ELSE rd
    /\ UNCHANGED <<Config, now, startError>>

\* C10: a navigation key received in Idle, in QuestionMode (the feedback
\* delay included) or in Done changes nothing and arms no timer.
C10_NavOnlyInPlayingOrPaused ==
    [][(NavStep /\ (Idle \/ rd.inQuestionMode \/ Stopped)) => UNCHANGED rd]_vars

\* C10 happens: a prompt is up, also during the feedback delay, at an item
\* a previous-item key would leave
C10_Witness ==
    /\ rd.stdinFlowing /\ rd.inQuestionMode
    /\ rd.currentIndex > 0 /\ rd.feedbackTimers > 0

\* a key that is no valid choice arrives while a quiz prompt is shown: a key
\* that is no digit (escape is the stop command, not a choice), 0, or a
\* number above the number of choices
InvalidChoiceStep ==
    /\ rd.stdinFlowing /\ rd.inQuestionMode
    /\ \/ \E name \in NamedKeys \ {"escape"} : rd' = onKeypress(rd, name, NaN)
       \/ \E num \in DigitKeys \ (1 .. NumChoices) : rd' = onKeypress(rd, "digit", num)
    /\ UNCHANGED <<Config, now, startError>>

\* C11: in QuestionMode an invalid or out-of-range choice input is ignored:
\* score, quiz index, currentIndex, inQuestionMode and every timer are
\* unchanged, and so is every other field.
C11_InvalidChoiceIgnored ==
    [][InvalidChoiceStep =>
         /\ rd'.score = rd.score
         /\ rd'.questionIndex = rd.questionIndex
         /\ rd'.currentIndex = rd.currentIndex
         /\ rd'.inQuestionMode = rd.inQuestionMode
         /\ <<rd'.timer, rd'.orphans, rd'.stopTimers, rd'.feedbackTimers>> =
              <<rd.timer, rd.orphans, rd.stopTimers, rd.feedbackTimers>>
         /\ rd' = rd]_vars

\* C11 happens: the second prompt is up and unanswered, with a point scored
\* on the first, so a key taken for a choice would show
C11_Witness ==
    /\ QuestionMode /\ rd.stdinFlowing
    /\ rd.feedbackTimers = 0 /\ rd.questionIndex > 0 /\ rd.score > 0

\* ------------------------------------------- live pacing (SpecPacing)
\*
\* The reader as main() constructs it, with or without a duration schedule,
\* under the keys that change the pace, the intensity and the current item.
\* The record rd carries, besides the fields of Spec, this.baseWpm,
\* this.baseGamma, this.durations (<<>> is null) and, per word, whether it
\* ends with a punctuation character.  Durations are whole milliseconds;
\* the arithmetic of currentDuration is exact, where the code's is IEEE.

PUNCTUATION_PAUSE_MS == 200
DEFAULT_TARGET_WPM == 360
DEMO_WPM == 400
MS_PER_MINUTE == 60000
min_ms == 80
max_ms == 800

\* this.durations = options.durations || null
NoDurations == <<>>

\* JavaScript's v || d on numbers
OrDefault(v, d) == IF v = 0 THEN d ELSE v

\* Math.round(p / q) for q > 0: the nearest integer, a half going up
Round(p, q) == (2 * p + q) \div (2 * q)

\* Math.min(Math.max(x, min_ms), max_ms)
Clamp(x) == Min(Max(x, min_ms), max_ms)

delayMs(s) == Round(MS_PER_MINUTE, s.wpm)

\* mutant of currentDuration: the stored duration is used without the WPM scale
currentDuration_WpmUnscaled(s) ==
    IF autoMode /\ s.durations # NoDurations /\ s.currentIndex < Len(s.durations)
    THEN LET d == s.durations[s.currentIndex + 1]
             baseMs == Round(MS_PER_MINUTE, s.baseWpm)
         IN  IF s.gamma # s.baseGamma
             THEN Round(baseMs * s.baseGamma + (d - baseMs) * s.gamma, s.baseGamma)
             ELSE d
    ELSE delayMs(s)

\* mutant of currentDuration: the base of the slowdown split is not scaled by
\* the WPM ratio
currentDuration_BaseUnscaled(s) ==
    IF autoMode /\ s.durations # NoDurations /\ s.currentIndex < Len(s.durations)
    THEN LET d == s.durations[s.currentIndex + 1]
             baseMs == Round(MS_PER_MINUTE, s.baseWpm)
         IN  IF s.gamma # s.baseGamma
             THEN Round(baseMs * s.wpm * s.baseGamma
                          + (d * s.baseWpm - baseMs * s.wpm) * s.gamma,
                        s.wpm * s.baseGamma)
             ELSE Round(d * s.baseWpm, s.wpm)
    ELSE delayMs(s)

\* get currentDuration: with wpmScale = baseWpm / wpm and
\* baseMs = Math.round(60000 / baseWpm) * wpmScale, the value rounded is
\*   d * wpmScale                                        gamma unchanged
\*   baseMs + (d * wpmScale - baseMs) * gamma/baseGamma  otherwise
currentDuration(s) ==
    IF autoMode /\ s.durations # NoDurations /\ s.currentIndex < Len(s.durations)
    THEN LET d == s.durations[s.currentIndex + 1]
             baseMs == Round(MS_PER_MINUTE, s.baseWpm)
         IN  IF s.gamma # s.baseGamma
             THEN Round(s.baseWpm * (baseMs * s.baseGamma + (d - baseMs) * s.gamma),
                        s.wpm * s.baseGamma)
             ELSE Round(d * s.baseWpm, s.wpm)
    ELSE delayMs(s)

\* the delay scheduleNext() arms the presentation timer with
delay(s) ==
    IF autoMode /\ s.durations # NoDurations
    THEN currentDuration(s)
    ELSE delayMs(s) + (IF s.hasPunctuation[s.currentIndex + 1]
                       THEN PUNCTUATION_PAUSE_MS ELSE 0)

\* the values --target-wpm and --gamma (or the configuration) supply, the
\* reading speeds a configuration holds, and the schedule values drawn
TargetWpms == {MIN_WPM, DEFAULT_TARGET_WPM, MAX_WPM}
OptionGammas == {MIN_GAMMA, DEFAULT_GAMMA, MAX_GAMMA}
ConfigWpms == {DEFAULT_WPM, DEMO_WPM}
SampleMs == {250, max_ms}

\* a schedule value is the clamped base duration or above it
ScheduleValues(targetWpm) ==
    {Clamp(Round(MS_PER_MINUTE, targetWpm))}
      \cup {d \in SampleMs : d >= Clamp(Round(MS_PER_MINUTE, targetWpm))}

PacingInit ==
    /\ nWords \in 1 .. MaxWords
    /\ maxWords = 0
    /\ questionPositions = <<>>
    /\ autoMode \in BOOLEAN
    /\ \E wpm \in ConfigWpms, targetWpm \in TargetWpms, gamma \in OptionGammas :
         \E durations \in IF autoMode THEN [1 .. nWords -> ScheduleValues(targetWpm)]
                          ELSE {NoDurations},
            punct \in IF autoMode THEN {[i \in 1 .. nWords |-> FALSE]}
                      ELSE [1 .. nWords -> BOOLEAN] :
           rd = [currentIndex |-> 0, running |-> FALSE, paused |-> FALSE,
                 inQuestionMode |-> FALSE, currentQuestion |-> NoQuestion,
                 questionIndex |-> 0, score |-> 0,
                 startTime |-> NoTime, elapsedTime |-> 0,
                 wpm |-> wpm, gamma |-> OrDefault(gamma, DEFAULT_GAMMA),
                 timer |-> "null", orphans |-> 0, stopTimers |-> 0,
                 feedbackTimers |-> 0,
                 stdinFlowing |-> FALSE, changes |-> 0, done |-> <<>>,
                 baseWpm |-> OrDefault(targetWpm, wpm),
                 baseGamma |-> OrDefault(gamma, DEFAULT_GAMMA),
                 durations |-> durations, hasPunctuation |-> punct]
    /\ now = 1
    /\ startError = FALSE
    /\ sap = NoRun

PacingKeys == {"up", "down", "plus", "minus", "left", "right"}

\* a key that changes the pace, the intensity or the current item; the
\* budget Spec keeps of such keys is not applied
PacingKey ==
    \E name \in PacingKeys :
        /\ rd.stdinFlowing
        /\ rd' = [onKeypress(rd, name, NaN) EXCEPT !.changes = rd.changes]
        /\ UNCHANGED <<Config, now, startError>>

PacingNext ==
    \/ Start
    \/ PacingKey

SpecPacing == PacingInit /\ [][PacingNext]_vars

\* a precomputed duration schedule is active for the current item
ScheduleActive ==
    /\ autoMode /\ rd.durations # NoDurations
    /\ rd.currentIndex < Len(rd.durations)

\* C12: after any sequence of speed and intensity adjustments the stored
\* words-per-minute lies in [50, 1000] and the stored gamma in [0.0, 2.0].
C12_ParametersClamped ==
    /\ rd.wpm >= MIN_WPM /\ rd.wpm <= MAX_WPM
    /\ rd.gamma >= MIN_GAMMA /\ rd.gamma <= MAX_GAMMA

\* C12 happens: the adjustments have driven both parameters to a limit
C12_Witness ==
    /\ Started
    /\ rd.wpm = MAX_WPM /\ rd.gamma = MIN_GAMMA

\* the state after k presses of the speed-up key; at MAX_WPM a press changes
\* nothing more
RECURSIVE SpeedUp(_, _)
SpeedUp(s, k) ==
    IF k = 0 \/ s.wpm = MAX_WPM THEN s ELSE SpeedUp(increaseSpeed(s), k - 1)

\* the presses of the speed-up key that double the current WPM
Doubled(s) == SpeedUp(s, s.wpm \div WPM_INCREMENT)

\* the current WPM can be doubled and the schedule is in use at the original
\* intensity
DoublingCase ==
    /\ Playing /\ ScheduleActive
    /\ rd.gamma = rd.baseGamma
    /\ Doubled(rd).wpm = 2 * rd.wpm

\* C13 as stated: with a schedule active and the intensity unchanged,
\* doubling the current WPM makes the duration next scheduled for the current
\* item exactly half of its duration before the change.
C13_DoublingHalvesExactly ==
    DoublingCase => 2 * delay(Doubled(rd)) = delay(rd)

\* C13 as amended: with a schedule active and the intensity unchanged,
\* doubling the current WPM makes the duration next scheduled for the current
\* item half of its duration before the change up to the rounding of both to
\* whole milliseconds: twice the new duration differs from the old one by at
\* most 1 ms.
C13_DoublingHalvesRounded ==
    DoublingCase =>
        /\ 2 * delay(Doubled(rd)) - delay(rd) <= 1
        /\ delay(rd) - 2 * delay(Doubled(rd)) <= 1

\* C13 happens: the WPM stands at twice the original target after key
\* presses, where the armed duration is the rounded half of the stored one,
\* and can be doubled once more
C13_Witness ==
    /\ DoublingCase
    /\ rd.wpm = 2 * rd.baseWpm
    /\ delay(rd) = Round(rd.durations[rd.currentIndex + 1], 2)

NoReader == <<>>

ReaderIdle ==
    /\ nWords = 0 /\ maxWords = 0 /\ questionPositions = <<>>
    /\ autoMode = TRUE
    /\ rd = NoReader
    /\ now = 1
    /\ startError = FALSE

ReaderVars == <<nWords, maxWords, questionPositions, autoMode, rd, now, startError>>

\* DEFAULT_PARAMS
chunk_size_words == 16
chunk_overlap_context_words == 12

\* mutant of chunkPlan: the end of a chunk is not cut at the number of items
RECURSIVE chunkPlan_EndUncut(_, _, _, _)
chunkPlan_EndUncut(n, size, overlap, i) ==
    IF i < n
    THEN LET startItem == i
             endItem == i + size
             contextStartItem == Max(0, startItem - overlap)
         IN  <<[startItem |-> startItem, endItem |-> endItem,
                contextStartItem |-> contextStartItem]>>
               \o chunkPlan_EndUncut(n, size, overlap, endItem)
    ELSE <<>>

\* chunkPlan(items, params) from the loop's i on; n is items.length
RECURSIVE chunkPlan(_, _, _, _)
chunkPlan(n, size, overlap, i) ==
    IF i < n
    THEN LET startItem == i
             endItem == Min(i + size, n)
             contextStartItem == Max(0, startItem - overlap)
         IN  <<[startItem |-> startItem, endItem |-> endItem,
                contextStartItem |-> contextStartItem]>>
               \o chunkPlan(n, size, overlap, endItem)
    ELSE <<>>

\* ---------------------------------------------- chunkPlan (SpecChunks)

MaxItems == 7
MaxChunkSize == 3
MaxOverlap == 3

ChunksInit ==
    /\ ReaderIdle
    /\ \E n \in 0 .. MaxItems, size \in 1 .. MaxChunkSize, overlap \in 0 .. MaxOverlap :
         sap = [n |-> n, chunk_size_words |-> size,
                chunk_overlap_context_words |-> overlap,
                planned |-> FALSE, chunks |-> <<>>]

\* chunkPlan is called
PlanChunks ==
    /\ ~sap.planned
    /\ sap' = [sap EXCEPT !.planned = TRUE,
                          !.chunks = chunkPlan(sap.n, sap.chunk_size_words,
                                               sap.chunk_overlap_context_words, 0)]
    /\ UNCHANGED ReaderVars

ChunksNext == PlanChunks

SpecChunks == ChunksInit /\ [][ChunksNext]_vars

\* ceil(a / b) for b > 0
CeilDiv(a, b) == (a + b - 1) \div b

\* C15: for every n >= 0 and chunk_size_words >= 1, chunkPlan returns chunks
\* that partition [0, n) in order: the first starts at 0, each endItem is the
\* next startItem, the last endItem is n, every chunk but possibly the last
\* has chunk_size_words items, there are ceil(n / chunk_size_words) chunks,
\* and contextStartItem = max(0, startItem - chunk_overlap_context_words)
\* <= startItem.
C15_ChunksPartition ==
    sap.planned =>
        LET cs == sap.chunks
            k == Len(cs)
        IN  /\ k = CeilDiv(sap.n, sap.chunk_size_words)
            /\ k > 0 => (cs[1].startItem = 0 /\ cs[k].endItem = sap.n)
            /\ \A c \in 1 .. (k - 1) :
                 /\ cs[c].endItem = cs[c + 1].startItem
                 /\ cs[c].endItem - cs[c].startItem = sap.chunk_size_words
            /\ \A c \in 1 .. k :
                 /\ cs[c].startItem < cs[c].endItem
                 /\ cs[c].endItem - cs[c].startItem <= sap.chunk_size_words
                 /\ cs[c].contextStartItem <= cs[c].startItem
                 /\ cs[c].contextStartItem >= 0
                 /\ \/ cs[c].contextStartItem = 0
                       /\ cs[c].startItem <= sap.chunk_overlap_context_words
                    \/ cs[c].contextStartItem =
                         cs[c].startItem - sap.chunk_overlap_context_words

\* C15 happens: a plan of three chunks whose last one is short and whose
\* context window is cut at the first item for one chunk and full for another
C15_Witness ==
    /\ sap.planned /\ Len(sap.chunks) = 3
    /\ sap.n % sap.chunk_size_words # 0
    /\ sap.chunks[2].contextStartItem = 0 /\ sap.chunks[2].startItem > 0
    /\ sap.chunks[3].contextStartItem > 0

\* -------------------------------------- computeDurations (SpecDurations)
\*
\* Surprisal is kept in quarter bits, so that the medians the code takes (of
\* the surprisal, then of the absolute deviations) are whole numbers; excess
\* surprise is kept in thousandths, the slowdown field u in 1/100000, tanh in
\* thousandths by linear interpolation between its values at the tenths.

\* one bit of surprisal
BIT == 4

alpha == 1
beta == 2
e_max == 2
kernel_radius == 3
\* kernel_weights, in hundredths
kernel_weights == <<15, 30, 60, 100, 60, 30, 15>>
comma_bonus_ms == 60
period_bonus_ms == 120
para_bonus_ms == 180

EndsWithKinds == {"none", "comma", "period", "para"}

Range(f) == {f[i] : i \in DOMAIN f}

\* [...arr].sort((a, b) => a - b)
Sorted(arr) ==
    [k \in 1 .. Len(arr) |->
        CHOOSE v \in Range(arr) :
            /\ Cardinality({i \in 1 .. Len(arr) : arr[i] < v}) < k
            /\ k <= Cardinality({i \in 1 .. Len(arr) : arr[i] <= v})]

median(arr) ==
    IF Len(arr) = 0 THEN 0
    ELSE LET sorted == Sorted(arr)
             mid == Len(arr) \div 2
         IN  IF Len(arr) % 2 = 1 THEN sorted[mid + 1]
             ELSE (sorted[mid] + sorted[mid + 1]) \div 2

Abs(x) == IF x < 0 THEN -x ELSE x

mad(arr, med) ==
    IF Len(arr) = 0 THEN 0
    ELSE median([i \in 1 .. Len(arr) |-> Abs(arr[i] - med)])

\* e = max(0, min(z, e_max)), z = (s - (m + alpha * sigma)) / (beta * sigma),
\* sigma = max(1e-6, 1.4826 * madVal), in thousandths.  With madVal = 0 sigma
\* is the millionth of a bit, which a quarter bit exceeds 250000 times: z is
\* beyond e_max above the median and negative elsewhere.  Otherwise
\* 1.4826 = 7413 / 5000.
excess(s, m, madVal) ==
    IF madVal = 0
    THEN IF s > m THEN e_max * 1000 ELSE 0
    ELSE Max(0, Min((1000 * (5000 * (s - m) - alpha * 7413 * madVal))
                       \div (beta * 7413 * madVal),
                    e_max * 1000))

\* 1000 * tanh(k / 10) for k = 0 .. 42; tanh is 1.000 to the thousandth
\* from 4.2 on
TanhTenths ==
    <<0, 100, 197, 291, 380, 462, 537, 604, 664, 716, 762, 800,
      834, 862, 885, 905, 922, 935, 947, 956, 964, 970, 976, 980,
      984, 987, 989, 991, 993, 994, 995, 996, 997, 997, 998, 998,
      999, 999, 999, 999, 999, 999, 1000>>

\* Math.tanh(u), u in 1/100000, in thousandths
tanh(u) ==
    LET k == u \div 10000
        r == u % 10000
    IN  IF k + 2 > Len(TanhTenths) THEN 1000
        ELSE TanhTenths[k + 1]
               + ((TanhTenths[k + 2] - TanhTenths[k + 1]) * r) \div 10000

punctuationBonus(endsWith) ==
    CASE endsWith = "para" -> para_bonus_ms
      [] endsWith = "period" -> period_bonus_ms
      [] endsWith = "comma" -> comma_bonus_ms
      [] OTHER -> 0

\* the neighbor slowdown field u[i], i 0-based, in 1/100000
slowdownField(e, i) ==
    LET n == Len(e)
        term(d) == IF i + d >= 0 /\ i + d < n
                   THEN e[i + d + 1] * kernel_weights[d + kernel_radius + 1]
                   ELSE 0
        RECURSIVE sumFrom(_)
        sumFrom(d) == IF d > kernel_radius THEN 0 ELSE term(d) + sumFrom(d + 1)
    IN  sumFrom(-kernel_radius)

\* mutant of computeDurations: the durations are floored at min_ms but not
\* capped at max_ms
computeDurations_NoCeiling(endsWith, surprisalBits, p) ==
    LET n == Len(endsWith)
        baseMs == Round(MS_PER_MINUTE, p.target_wpm)
    IN  IF Len(surprisalBits) = 0
        THEN [i \in 1 .. n |-> Max(baseMs + punctuationBonus(endsWith[i]), min_ms)]
        ELSE LET m == median(surprisalBits)
                 madVal == mad(surprisalBits, m)
                 e == [i \in 1 .. n |-> excess(surprisalBits[i], m, madVal)]
             IN  [i \in 1 .. n |->
                    Max(Round(baseMs * (10000 + p.gamma * tanh(slowdownField(e, i - 1)))
                                + 10000 * punctuationBonus(endsWith[i]),
                              10000),
                        min_ms)]

\* computeDurations(items, surprisalBits, params); of an item only endsWith
\* is read; p.gamma is in tenths
computeDurations(endsWith, surprisalBits, p) ==
    LET n == Len(endsWith)
        baseMs == Round(MS_PER_MINUTE, p.target_wpm)
    IN  IF Len(surprisalBits) = 0
        THEN [i \in 1 .. n |-> Clamp(baseMs + punctuationBonus(endsWith[i]))]
        ELSE LET m == median(surprisalBits)
                 madVal == mad(surprisalBits, m)
                 e == [i \in 1 .. n |-> excess(surprisalBits[i], m, madVal)]
             IN  [i \in 1 .. n |->
                    Clamp(Round(baseMs * (10000 + p.gamma * tanh(slowdownField(e, i - 1)))
                                  + 10000 * punctuationBonus(endsWith[i]),
                                10000))]

MaxDurItems == 3

\* surprisal values drawn: none, one bit, three bits, forty bits
SampleBits == {0, BIT, 3 * BIT, 40 * BIT}

DurationsInit ==
    /\ ReaderIdle
    /\ \E n \in 0 .. MaxDurItems, target_wpm \in TargetWpms, gamma \in OptionGammas :
         \E endsWith \in [1 .. n -> EndsWithKinds],
            surprisalBits \in {<<>>} \cup [1 .. n -> SampleBits] :
           sap = [endsWith |-> endsWith, surprisalBits |-> surprisalBits,
                  params |-> [target_wpm |-> target_wpm, gamma |-> gamma],
                  computed |-> FALSE, durations |-> <<>>]

\* computeDurations is called
ComputeDurations ==
    /\ ~sap.computed
    /\ sap' = [sap EXCEPT !.computed = TRUE,
                          !.durations = computeDurations(sap.endsWith, sap.surprisalBits,
                                                         sap.params)]
    /\ UNCHANGED ReaderVars

DurationsNext == ComputeDurations

SpecDurations == DurationsInit /\ [][DurationsNext]_vars

\* C18: for all parameter sets and all surprisal vectors, the empty vector of
\* the no-scoring path included, computeDurations returns one duration per
\* item and every one lies within [min_ms, max_ms].
C18_DurationsClamped ==
    sap.computed =>
        /\ Len(sap.durations) = Len(sap.endsWith)
        /\ \A i \in 1 .. Len(sap.durations) :
             sap.durations[i] >= min_ms /\ sap.durations[i] <= max_ms

\* C18 happens: with scoring data, one item is held at the floor, its
\* base duration being below it, while the slowdown lifts another above
C18_Witness ==
    /\ sap.computed /\ Len(sap.surprisalBits) > 0
    /\ Round(MS_PER_MINUTE, sap.params.target_wpm) < min_ms
    /\ \E i, j \in 1 .. Len(sap.durations) :
         /\ sap.endsWith[i] = "none" /\ sap.durations[i] = min_ms
         /\ sap.endsWith[j] = "none" /\ sap.durations[j] > min_ms

\* ------------------------------------------- processText (SpecProcess)
\*
\* A text is a sequence of characters, positions 0-based as in the code.  A
\* run of processText is the record sap: its arguments, its locals (items,
\* chunks, surprisalBits, ci), where it stands (pc), the scoring calls it has
\* issued (calls) and those not yet settled (inFlight), the warnings it has
\* logged (warned), the progress it has reported and the durations returned.
\* processText runs from its call to the first await, and from the settling
\* of the awaited call to the next await or to its return, without
\* interruption.

SPACE == " "
NL == "\n"

\* \s
IsSpace(c) == c \in {SPACE, NL}

\* where /\S+/g finds its next match from lastIndex on; Len(text) when none
RECURSIVE matchStart(_, _)
matchStart(text, lastIndex) ==
    IF lastIndex >= Len(text) \/ ~IsSpace(text[lastIndex + 1]) THEN lastIndex
    ELSE matchStart(text, lastIndex + 1)

\* mutant of matchEnd: a match is one character long
matchEnd_OneChar(text, startChar) == startChar + 1

\* where the match that starts at startChar ends
RECURSIVE matchEnd(_, _)
matchEnd(text, startChar) ==
    IF startChar >= Len(text) \/ IsSpace(text[startChar + 1]) THEN startChar
    ELSE matchEnd(text, startChar + 1)

\* the newlines in the white space that starts at pos:
\* text.slice(pos) matches /^(\s*\n\s*\n)/ when there are two
RECURSIVE newlinesAhead(_, _)
newlinesAhead(text, pos) ==
    IF pos >= Len(text) \/ ~IsSpace(text[pos + 1]) THEN 0
    ELSE (IF text[pos + 1] = NL THEN 1 ELSE 0) + newlinesAhead(text, pos + 1)

\* the loop of itemize from regex.lastIndex on
RECURSIVE itemizeFrom(_, _)
itemizeFrom(text, lastIndex) ==
    LET startChar == matchStart(text, lastIndex)
    IN  IF startChar >= Len(text) THEN <<>>
        ELSE LET endChar == matchEnd(text, startChar)
                 lastChar == text[endChar]
                 endsWith ==
                     IF newlinesAhead(text, endChar) >= 2 THEN "para"
                     ELSE IF lastChar \in {".", "!", "?"} THEN "period"
                     ELSE IF lastChar \in {",", ";", ":"} THEN "comma"
                     ELSE "none"
             IN  <<[text |-> SubSeq(text, startChar + 1, endChar),
                    startChar |-> startChar, endChar |-> endChar,
                    endsWith |-> endsWith]>>
                   \o itemizeFrom(text, endChar)

itemize(text) == itemizeFrom(text, 0)

\* items.slice(from, to).map(it => it.text).join(' ')
RECURSIVE joinText(_, _, _)
joinText(items, from, to) ==
    IF from >= to THEN <<>>
    ELSE IF from + 1 = to THEN items[to].text
    ELSE items[from + 1].text \o <<SPACE>> \o joinText(items, from + 1, to)

\* chunkText of chunk ci of a run
chunkTextOf(s, ci) ==
    joinText(s.items, s.chunks[ci + 1].startItem, s.chunks[ci + 1].endItem)

\* the tokens a scoring function returns for the tokens the provider sent:
\* each token starts where the one before it ends, the first at 0
scoredTokens(content) ==
    LET RECURSIVE charPos(_)
        charPos(ti) == IF ti = 1 THEN 0 ELSE charPos(ti - 1) + content[ti - 1].length
    IN  [ti \in 1 .. Len(content) |->
            [startChar |-> charPos(ti), endChar |-> charPos(ti) + content[ti].length,
             bits |-> content[ti].bits]]

\* the first item a span overlaps, -1 when none
firstOverlap(items, tokenStart, tokenEnd) ==
    LET found == {i \in 0 .. Len(items) - 1 :
                     tokenStart < items[i + 1].endChar /\ tokenEnd > items[i + 1].startChar}
    IN  IF found = {} THEN -1 ELSE CHOOSE i \in found : \A j \in found : i <= j

\* mutant of alignTokensToItems: the offset of the scored text is left out
alignTokensToItems_NoOffset(items, lmTokens, textStartChar) ==
    [ti \in 1 .. Len(lmTokens) |->
        firstOverlap(items, lmTokens[ti].startChar, lmTokens[ti].endChar)]

alignTokensToItems(items, lmTokens, textStartChar) ==
    [ti \in 1 .. Len(lmTokens) |->
        firstOverlap(items, textStartChar + lmTokens[ti].startChar,
                     textStartChar + lmTokens[ti].endChar)]

\* surprisalBits after the bits of every aligned token are added to its item
accumulate(surprisalBits, lmTokens, tokenToItem) ==
    LET n == Len(surprisalBits)
        RECURSIVE bitsOf(_, _)
        bitsOf(itemIdx, ti) ==
            IF ti = 0 THEN 0
            ELSE bitsOf(itemIdx, ti - 1)
                   + (IF tokenToItem[ti] = itemIdx /\ itemIdx >= 0 /\ itemIdx < n
                      THEN lmTokens[ti].bits ELSE 0)
    IN  [i \in 1 .. n |-> surprisalBits[i] + bitsOf(i - 1, Len(lmTokens))]

\* mutant of runLoop: no report is made after the last chunk
RECURSIVE runLoop_NoFinalReport(_)
runLoop_NoFinalReport(s) ==
    LET k == Len(s.chunks)
    IN  IF s.ci < k
        THEN LET reported == [s EXCEPT !.progress = Append(@, <<s.ci, k>>)]
                 chunkText == chunkTextOf(s, s.ci)
             IN  IF \A i \in 1 .. Len(chunkText) : IsSpace(chunkText[i])
                 THEN runLoop_NoFinalReport([reported EXCEPT !.ci = @ + 1])
                 ELSE [reported EXCEPT !.calls = Append(@, s.ci),
                                       !.inFlight = @ \cup {s.ci},
                                       !.pc = "await"]
        ELSE [s EXCEPT !.durations = computeDurations(
                                         [i \in 1 .. Len(s.items) |-> s.items[i].endsWith],
                                         s.surprisalBits, s.params),
                       !.pc = "returned"]

\* mutant of runLoop: the scoring call is not awaited
RECURSIVE runLoop_NoAwait(_)
runLoop_NoAwait(s) ==
    LET k == Len(s.chunks)
    IN  IF s.ci < k
        THEN LET reported == [s EXCEPT !.progress = Append(@, <<s.ci, k>>)]
                 chunkText == chunkTextOf(s, s.ci)
             IN  IF \A i \in 1 .. Len(chunkText) : IsSpace(chunkText[i])
                 THEN runLoop_NoAwait([reported EXCEPT !.ci = @ + 1])
                 ELSE runLoop_NoAwait([reported EXCEPT !.calls = Append(@, s.ci),
                                                       !.inFlight = @ \cup {s.ci},
                                                       !.ci = @ + 1])
        ELSE [s EXCEPT !.progress = Append(@, <<k, k>>),
                       !.durations = computeDurations(
                                         [i \in 1 .. Len(s.items) |-> s.items[i].endsWith],
                                         s.surprisalBits, s.params),
                       !.pc = "returned"]

\* processText from the head of its loop on, at chunk s.ci, up to the next
\* await or to the return
RECURSIVE runLoop(_)
runLoop(s) ==
    LET k == Len(s.chunks)
    IN  IF s.ci < k
        THEN LET reported == [s EXCEPT !.progress = Append(@, <<s.ci, k>>)]
                 chunkText == chunkTextOf(s, s.ci)
             IN  IF \A i \in 1 .. Len(chunkText) : IsSpace(chunkText[i])
                 THEN runLoop([reported EXCEPT !.ci = @ + 1])
                 ELSE [reported EXCEPT !.calls = Append(@, s.ci),
                                       !.inFlight = @ \cup {s.ci},
                                       !.pc = "await"]
        ELSE [s EXCEPT !.progress = Append(@, <<k, k>>),
                       !.durations = computeDurations(
                                         [i \in 1 .. Len(s.items) |-> s.items[i].endsWith],
                                         s.surprisalBits, s.params),
                       !.pc = "returned"]

\* processText(text, scoreTokensFn, params, onProgress) up to its first await
processText(s) ==
    LET items == itemize(s.text)
        n == Len(items)
    IN  IF n = 0 THEN [s EXCEPT !.pc = "returned"]
        ELSE runLoop([s EXCEPT !.items = items,
                               !.chunks = chunkPlan(n, s.params.chunk_size_words,
                                                    s.params.chunk_overlap_context_words, 0),
                               !.surprisalBits = [i \in 1 .. n |-> 0],
                               !.ci = 0])

\* the awaited scoring call resolves with lmTokens
onResolved(s, lmTokens) ==
    LET chunkStartChar == s.items[s.chunks[s.ci + 1].startItem + 1].startChar
        tokenToItem == alignTokensToItems(s.items, lmTokens, chunkStartChar)
    IN  runLoop([s EXCEPT !.inFlight = @ \ {s.ci},
                          !.surprisalBits = IF Len(lmTokens) > 0
                                            THEN accumulate(@, lmTokens, tokenToItem)
                                            ELSE @,
                          !.ci = @ + 1])

\* the awaited scoring call rejects: the catch logs a warning
onRejected(s) ==
    runLoop([s EXCEPT !.inFlight = @ \ {s.ci},
                      !.warned = @ \cup {s.ci},
                      !.ci = @ + 1])

MaxTextLen == 6
MaxTokens == 2
MaxTokenLen == 2

Alphabet == {"a", SPACE}

\* the bits of one token: a certain token (logprob 0) or a token of one bit
TokenBits == {0, BIT}

TextsUpTo(maxLen) == UNION {[1 .. len -> Alphabet] : len \in 0 .. maxLen}

Texts == TextsUpTo(MaxTextLen)

RECURSIVE totalLength(_, _)
totalLength(content, ti) ==
    IF ti = 0 THEN 0 ELSE totalLength(content, ti - 1) + content[ti].length

\* what a provider may answer for a chunk text: tokens that lie within it
Contents(chunkText) ==
    {content \in UNION {[1 .. k -> [length : 1 .. MaxTokenLen, bits : TokenBits]] :
                           k \in 0 .. MaxTokens} :
        totalLength(content, Len(content)) <= Len(chunkText)}

ProcessInit ==
    /\ ReaderIdle
    /\ \E text \in Texts, size \in 1 .. MaxChunkSize, overlap \in 0 .. MaxOverlap,
          target_wpm \in TargetWpms, gamma \in OptionGammas :
         sap = [text |-> text,
                params |-> [chunk_size_words |-> size,
                            chunk_overlap_context_words |-> overlap,
                            target_wpm |-> target_wpm, gamma |-> gamma],
                pc |-> "start", items |-> <<>>, chunks |-> <<>>,
                surprisalBits |-> <<>>, ci |-> 0,
                calls |-> <<>>, inFlight |-> {}, warned |-> {},
                progress |-> <<>>, durations |-> <<>>]

\* processText is called
ProcessText ==
    /\ sap.pc = "start"
    /\ sap' = processText(sap)
    /\ UNCHANGED ReaderVars

\* the scoring call in flight resolves
Resolve ==
    /\ sap.pc = "await"
    /\ \E content \in Contents(chunkTextOf(sap, sap.ci)) :
         sap' = onResolved(sap, scoredTokens(content))
    /\ UNCHANGED ReaderVars

\* the scoring call in flight rejects
Reject ==
    /\ sap.pc = "await"
    /\ sap' = onRejected(sap)
    /\ UNCHANGED ReaderVars

ProcessNext == ProcessText \/ Resolve \/ Reject

SpecProcess == ProcessInit /\ [][ProcessNext]_vars

\* the items of chunk ci, as indices into the 1-based sequences
ItemsOfChunk(s, ci) == (s.chunks[ci + 1].startItem + 1) .. s.chunks[ci + 1].endItem

\* C16: during processText at most one scoring call is in flight: every call
\* but the latest has settled when a call is issued, and the calls are issued
\* in increasing chunk order, each chunk at most once.
C16_ScoringSequential ==
    /\ Cardinality(sap.inFlight) <= 1
    /\ \A j \in 1 .. Len(sap.calls) - 1 :
         /\ sap.calls[j] \notin sap.inFlight
         /\ sap.calls[j] < sap.calls[j + 1]
    /\ \A j \in 1 .. Len(sap.calls) : sap.calls[j] \in 0 .. Len(sap.chunks) - 1

\* C16 happens: the third call is in flight after one call resolved and one
\* rejected
C16_Witness ==
    /\ sap.pc = "await" /\ Len(sap.calls) = 3 /\ sap.inFlight = {2}
    /\ Cardinality(sap.warned) = 1

\* C17: when the scoring call of a chunk fails, every item of that chunk has
\* surprisal zero from then on and in the returned vector, every later chunk
\* is still scored, and processText returns a duration for every item: the
\* run never ends in the failure.
C17_FailedChunkKeepsZero ==
    /\ \A ci \in sap.warned : \A i \in ItemsOfChunk(sap, ci) : sap.surprisalBits[i] = 0
    /\ sap.warned # {} => sap.pc \in {"await", "returned"}
    /\ (sap.pc = "returned" /\ sap.warned # {}) =>
         /\ sap.calls = [j \in 1 .. Len(sap.chunks) |-> j - 1]
         /\ Len(sap.durations) = Len(sap.items)
         /\ Len(sap.surprisalBits) = Len(sap.items)

\* C17 happens: a run has returned whose second chunk failed, between a first
\* and a third chunk that were scored, in a text with a double space
C17_Witness ==
    /\ sap.pc = "returned" /\ sap.warned = {1} /\ Len(sap.chunks) = 3
    /\ sap.surprisalBits[1] > 0
    /\ sap.surprisalBits[Len(sap.items)] > 0
    /\ \E i \in 1 .. Len(sap.text) - 1 : sap.text[i] = SPACE /\ sap.text[i + 1] = SPACE

\* ------------------------------------------- the result cache (SpecCache)
\*
\* The --auto block of main, for one text over several runs of the program.
\* The file of the cache at the text's path outlives a run.  A JSON object is
\* a record with the set of the fields it has; the timestamp, which nothing
\* reads, is left out.  main has left before this block when the text has no
\* word, so that processText always reaches its first await.

\* the return value null
Null == [kind |-> "null"]

\* an exception thrown inside getCache's try
Thrown == [kind |-> "thrown"]

\* what setCache writes for a result { items, surprisalBits }
cacheData(text, items, surprisalBits) ==
    [kind |-> "object", textLength |-> Len(text),
     fields |-> {"textLength", "items", "surprisalBits"},
     items |-> items, surprisalBits |-> surprisalBits]

\* the body of getCache's try: the entry returned, or what is thrown, or
\* nothing returned
readCache(file, text) ==
    IF file.kind = "missing" THEN Null                   \* fs.existsSync is false
    ELSE IF file.kind = "unreadable" THEN Thrown         \* fs.readFileSync throws
    ELSE IF file.kind = "corrupt" THEN Thrown            \* JSON.parse throws
    ELSE IF file.kind = "null" THEN Thrown               \* null.textLength throws
    ELSE IF "textLength" \in file.fields /\ file.textLength = Len(text) THEN file
    ELSE Null

\* mutant of getCache: the stored length is not compared
getCache_NoLengthCheck(file, text) ==
    IF file.kind = "object" THEN file ELSE Null

getCache(file, text) ==
    LET returned == readCache(file, text)
    IN  IF returned = Thrown THEN Null ELSE returned

\* setCache(text, { items, surprisalBits }); a failed write is ignored
setCache(file, text, items, surprisalBits, written) ==
    IF written THEN cacheData(text, items, surprisalBits) ELSE file

\* cached && cached.items && cached.surprisalBits
Usable(cached) ==
    /\ cached.kind = "object"
    /\ {"items", "surprisalBits"} \subseteq cached.fields

EndsWithOf(items) == [i \in 1 .. Len(items) |-> items[i].endsWith]

\* main from 'Analyzing text' up to the first await of processText
analyze(s) == processText([s EXCEPT !.mainPc = "processing"])

\* mutant of mainAuto: the cache is read and then left aside
mainAuto_CacheUnused(s, costExceeds) ==
    LET cached == getCache(s.file, s.text)
    IN  IF costExceeds THEN [s EXCEPT !.cached = cached, !.mainPc = "confirm"]
        ELSE analyze([s EXCEPT !.cached = cached])

\* the --auto block of main up to its first await, or to its end
mainAuto(s, costExceeds) ==
    LET cached == getCache(s.file, s.text)
    IN  IF Usable(cached)
        THEN [s EXCEPT !.cached = cached,
                       !.sapDurations = computeDurations(EndsWithOf(cached.items),
                                                         cached.surprisalBits, s.params),
                       !.mainPc = "ready"]
        ELSE IF costExceeds THEN [s EXCEPT !.cached = cached, !.mainPc = "confirm"]
        ELSE analyze([s EXCEPT !.cached = cached])

\* mutant of afterProcessText: a run with a failed call is not cached
afterProcessText_FailedRunNotCached(s, written) ==
    IF s.pc = "returned"
    THEN [s EXCEPT !.file = IF s.warned = {}
                            THEN setCache(@, s.text, s.items, s.surprisalBits, written)
                            ELSE @,
                   !.sapDurations = s.durations,
                   !.mainPc = "ready"]
    ELSE s

\* main after await processText, once processText has returned
afterProcessText(s, written) ==
    IF s.pc = "returned"
    THEN [s EXCEPT !.file = setCache(@, s.text, s.items, s.surprisalBits, written),
                   !.sapDurations = s.durations,
                   !.mainPc = "ready"]
    ELSE s

MaxCacheTextLen == 5
MaxRuns == 2

\* text.trim().length > 0
CacheTexts ==
    {text \in TextsUpTo(MaxCacheTextLen) : \E i \in 1 .. Len(text) : ~IsSpace(text[i])}

\* what the file at the text's cache path may hold when the program starts:
\* nothing, something that cannot be read or parsed, the JSON null, the
\* entry of an earlier run on the text, the entry of a longer text, or an
\* object of the text's length without surprisalBits
CacheFiles(text) ==
    LET items == itemize(text)
        longer == text \o <<"a">>
    IN  {[kind |-> k] : k \in {"missing", "unreadable", "corrupt", "null"}}
          \cup {cacheData(text, items, bits) : bits \in [1 .. Len(items) -> TokenBits]}
          \cup {cacheData(longer, itemize(longer), [i \in 1 .. Len(itemize(longer)) |-> BIT])}
          \cup {[kind |-> "object", textLength |-> Len(text),
                 fields |-> {"textLength", "items"},
                 items |-> items, surprisalBits |-> <<>>]}

\* a run of the program on text with the file as it is, before main's
\* --auto block
newRun(text, file, target_wpm, gamma, run) ==
    [text |-> text,
     params |-> [chunk_size_words |-> chunk_size_words,
                 chunk_overlap_context_words |-> chunk_overlap_context_words,
                 target_wpm |-> target_wpm, gamma |-> gamma],
     pc |-> "start", items |-> <<>>, chunks |-> <<>>,
     surprisalBits |-> <<>>, ci |-> 0,
     calls |-> <<>>, inFlight |-> {}, warned |-> {},
     progress |-> <<>>, durations |-> <<>>,
     mainPc |-> "main", file |-> file, cached |-> Null,
     sapDurations |-> NoDurations, run |-> run]

CacheInit ==
    /\ ReaderIdle
    /\ \E text \in CacheTexts, target_wpm \in TargetWpms, gamma \in OptionGammas :
         \E file \in CacheFiles(text) :
           sap = newRun(text, file, target_wpm, gamma, 1)

\* main reaches its --auto block
MainAuto ==
    /\ sap.mainPc = "main"
    /\ \E costExceeds \in BOOLEAN : sap' = mainAuto(sap, costExceeds)
    /\ UNCHANGED ReaderVars

\* the user answers the cost question
ConfirmCost ==
    /\ sap.mainPc = "confirm"
    /\ \E confirmed \in BOOLEAN :
         sap' = IF confirmed THEN analyze(sap) ELSE [sap EXCEPT !.mainPc = "exited"]
    /\ UNCHANGED ReaderVars

\* the scoring call in flight resolves; main goes on when processText returns
CacheResolve ==
    /\ sap.mainPc = "processing" /\ sap.pc = "await"
    /\ \E content \in Contents(chunkTextOf(sap, sap.ci)), written \in BOOLEAN :
         sap' = afterProcessText(onResolved(sap, scoredTokens(content)), written)
    /\ UNCHANGED ReaderVars

\* the scoring call in flight rejects; main goes on when processText returns
CacheReject ==
    /\ sap.mainPc = "processing" /\ sap.pc = "await"
    /\ \E written \in BOOLEAN : sap' = afterProcessText(onRejected(sap), written)
    /\ UNCHANGED ReaderVars

\* the program is run again on the same text, with other options
NextRun ==
    /\ sap.mainPc \in {"ready", "exited"}
    /\ sap.run < MaxRuns
    /\ \E target_wpm \in TargetWpms, gamma \in OptionGammas :
         sap' = newRun(sap.text, sap.file, target_wpm, gamma, sap.run + 1)
    /\ UNCHANGED ReaderVars

CacheNext == MainAuto \/ ConfirmCost \/ CacheResolve \/ CacheReject \/ NextRun

SpecCache == CacheInit /\ [][CacheNext]_vars

\* C19: a cache read returns the stored entry only if its stored length
\* equals the length of the text; with a length mismatch, a missing file, or
\* a file that cannot be read or parsed it returns null, and the read never
\* ends main with an error.
C19_CacheReadValidatesLength ==
    [][MainAuto =>
         /\ sap'.mainPc \in {"ready", "confirm", "processing"}
         /\ IF sap.file.kind = "object" /\ sap.file.textLength = Len(sap.text)
            THEN sap'.cached = sap.file
            ELSE sap'.cached = Null]_vars

\* C19 happens: the file holds a complete entry of another length, the read
\* has returned null and main is on its way to score the text
C19_Witness ==
    /\ sap.mainPc = "confirm"
    /\ Usable(sap.file) /\ sap.file.textLength # Len(sap.text)
    /\ sap.cached = Null

\* a cache hit as main takes it
CacheHit == Usable(sap.cached)

\* C20: on a cache hit no scoring call is made: chunks are not planned, no
\* token is aligned, and the durations are computed from the cached items and
\* surprisal with the gamma and target WPM of this run.
C20_HitSkipsScoring ==
    CacheHit =>
        /\ sap.calls = <<>> /\ sap.chunks = <<>> /\ sap.pc = "start"
        /\ sap.mainPc = "ready"
        /\ sap.sapDurations = computeDurations(EndsWithOf(sap.cached.items),
                                               sap.cached.surprisalBits, sap.params)

\* C20 happens: a second run with the strongest gamma takes from the cache a
\* surprisal vector that slows one word and not another
C20_Witness ==
    /\ CacheHit /\ sap.run = 2 /\ sap.params.gamma = MAX_GAMMA
    /\ \E i, j \in 1 .. Len(sap.sapDurations) :
         /\ sap.cached.surprisalBits[i] > 0
         /\ sap.sapDurations[i] # sap.sapDurations[j]

\* ------------------------------------------------ itemize (SpecItemize)

MaxItemizeLen == 5

\* a letter, the two kinds of punctuation itemize tells apart, a hyphen, and
\* the two kinds of white space it tells apart
ItemizeAlphabet == {"a", ".", ",", "-", SPACE, NL}

ItemizeInit ==
    /\ ReaderIdle
    /\ \E text \in UNION {[1 .. len -> ItemizeAlphabet] : len \in 0 .. MaxItemizeLen} :
         sap = [text |-> text, itemized |-> FALSE, items |-> <<>>]

\* itemize is called
Itemize ==
    /\ ~sap.itemized
    /\ sap' = [sap EXCEPT !.itemized = TRUE, !.items = itemize(sap.text)]
    /\ UNCHANGED ReaderVars

ItemizeNext == Itemize

SpecItemize == ItemizeInit /\ [][ItemizeNext]_vars

\* C21: itemize yields the items in increasing startChar order with
\* items[i].endChar <= items[i+1].startChar; the text of each item is
\* text[startChar, endChar) and has no white space; every character of the
\* text that is not white space lies in exactly one item; the items are the
\* maximal runs without white space, whatever punctuation they hold.
C21_ItemsTileWords ==
    sap.itemized =>
        LET text == sap.text
            items == sap.items
            n == Len(items)
        IN  /\ \A i \in 1 .. n :
                 /\ 0 <= items[i].startChar /\ items[i].startChar < items[i].endChar
                 /\ items[i].endChar <= Len(text)
                 /\ items[i].text = SubSeq(text, items[i].startChar + 1, items[i].endChar)
                 /\ \A c \in 1 .. Len(items[i].text) : ~IsSpace(items[i].text[c])
                 /\ items[i].startChar = 0 \/ IsSpace(text[items[i].startChar])
                 /\ items[i].endChar = Len(text) \/ IsSpace(text[items[i].endChar + 1])
            /\ \A i \in 1 .. n - 1 : items[i].endChar <= items[i + 1].startChar
            /\ \A c \in 1 .. Len(text) :
                 ~IsSpace(text[c]) =>
                     Cardinality({i \in 1 .. n : items[i].startChar < c
                                                 /\ c <= items[i].endChar}) = 1

\* C21 happens: two items with punctuation in them, apart by more than one
\* white space character
C21_Witness ==
    /\ sap.itemized /\ Len(sap.items) = 2
    /\ sap.items[1].text = <<"a", ".">>
    /\ sap.items[2].text = <<"-">>
    /\ sap.items[2].startChar > sap.items[1].endChar + 1

\* ------------------------------------ more of processText (SpecProcess)

\* the scoring calls of a run that have resolved or rejected
Settled(s) == Len(s.calls) - Cardinality(s.inFlight)

\* C22: in a run with k >= 1 chunks, processText has reported (chunkIndex, k)
\* once more than chunks have been processed, whether their scoring
\* succeeded or failed: a report follows every chunk; the chunkIndex values
\* reported go up one by one from 0, and the last report of a run that has
\* returned is (k, k).
C22_ProgressReported ==
    LET k == Len(sap.chunks)
    IN  (sap.pc \in {"await", "returned"} /\ k >= 1) =>
            /\ Len(sap.progress) = Settled(sap) + 1
            /\ \A j \in 1 .. Len(sap.progress) : sap.progress[j] = <<j - 1, k>>
            /\ sap.pc = "returned" => sap.progress[Len(sap.progress)] = <<k, k>>

\* C22 happens: a run of three chunks has returned, one of its calls having
\* failed and another having brought surprisal
C22_Witness ==
    /\ sap.pc = "returned" /\ Len(sap.chunks) = 3
    /\ Cardinality(sap.warned) = 1
    /\ \E i \in 1 .. Len(sap.surprisalBits) : sap.surprisalBits[i] > 0
    /\ Len(sap.progress) = 4

\* clamp(baseMs + punctuationBonus(item), min_ms, max_ms) for the run's
\* target WPM
basePacing(s, i) ==
    Clamp(Round(MS_PER_MINUTE, s.params.target_wpm) + punctuationBonus(s.items[i].endsWith))

\* C23: in a run that has returned where the scoring of some chunk failed and
\* other chunks were scored, every item of a failed chunk has exactly its
\* base pacing as duration, whatever the surprisal of the items of the
\* neighbouring chunks.
C23_FailedChunkBasePacing ==
    (sap.pc = "returned" /\ sap.warned # {} /\ Cardinality(sap.warned) < Len(sap.chunks)) =>
        \A ci \in sap.warned : \A i \in ItemsOfChunk(sap, ci) :
            sap.durations[i] = basePacing(sap, i)

\* ---------------------------- playback without adjustment (SpecSchedule)
\*
\* The sessions of SpecPacing in which the user changes neither the speed nor
\* the intensity: the presentation timers fire and the user moves back and
\* forth or pauses.

UnadjustingKeys == {"left", "right", "space"}

\* a key that changes neither the pace nor the intensity
UnadjustingKey ==
    \E name \in UnadjustingKeys :
        /\ rd.stdinFlowing
        /\ rd' = onKeypress(rd, name, NaN)
        /\ Within(rd')
        /\ UNCHANGED <<Config, now, startError>>

ScheduleNext ==
    \/ Start
    \/ UnadjustingKey
    \/ TimerFire
    \/ TrailingFire

SpecSchedule == PacingInit /\ [][ScheduleNext]_vars

\* C24: with a precomputed schedule and no speed or intensity adjustment, the
\* duration the scheduler arms for the current item is the schedule's value
\* for it, whatever the item and the initial configuration.
C24_ScheduleUsedExactly ==
    (Playing /\ rd.timer = "pending" /\ ScheduleActive) =>
        delay(rd) = rd.durations[rd.currentIndex + 1]

\* ------------------------------------ more of the result cache (SpecCache)

\* the step that ends a processText run in which a scoring call failed, the
\* write of the cache file succeeding
FailedRunEnds ==
    /\ sap.mainPc = "processing" /\ sap.pc = "await"
    /\ sap'.pc = "returned" /\ sap'.warned # {}
    /\ \/ \E content \in Contents(chunkTextOf(sap, sap.ci)) :
            sap' = afterProcessText(onResolved(sap, scoredTokens(content)), TRUE)
       \/ sap' = afterProcessText(onRejected(sap), TRUE)
    /\ UNCHANGED ReaderVars

\* main reads a file that holds what a run stores for the text
ReadsStoredRun ==
    /\ sap.mainPc = "main" /\ sap.file.kind = "object"
    /\ \E bits \in [1 .. Len(itemize(sap.text)) -> TokenBits] :
         sap.file = cacheData(sap.text, itemize(sap.text), bits)
    /\ MainAuto

\* C25: a processText run in which scoring calls failed, all of them
\* included, still returns and main stores its items and surprisal vector in
\* the cache; a run that finds what was stored takes it as a cache hit and
\* issues no scoring call, for the failed chunks as for the others.
C25_FailedRunCached ==
    [][/\ FailedRunEnds =>
            /\ sap'.mainPc = "ready"
            /\ sap'.file = cacheData(sap.text, sap'.items, sap'.surprisalBits)
            /\ sap'.sapDurations = sap'.durations
       /\ ReadsStoredRun =>
            /\ sap'.mainPc = "ready" /\ sap'.cached = sap.file
            /\ sap'.calls = <<>>]_vars

\* C25 happens: a run found nothing to use in the cache, its scoring call
\* failed, and the file now holds its items with zero surprisal
C25_Witness ==
    /\ sap.mainPc = "ready" /\ sap.pc = "returned" /\ sap.warned # {}
    /\ sap.cached = Null
    /\ sap.file = cacheData(sap.text, sap.items, sap.surprisalBits)
    /\ \A i \in 1 .. Len(sap.surprisalBits) : sap.surprisalBits[i] = 0

\* ------------------------------- alignment in processText (SpecAlign)
\*
\* The runs of processText in which every scoring call resolves with tokens
\* that cover the chunk text from its start to its end.

\* the replies that cover a chunk text: every token at most MaxTokenLen long
CoveringContents(chunkText) ==
    {content \in UNION {[1 .. k -> [length : 1 .. MaxTokenLen, bits : TokenBits]] :
                           k \in 0 .. Len(chunkText)} :
        totalLength(content, Len(content)) = Len(chunkText)}

AlignInit ==
    /\ ReaderIdle
    /\ \E text \in Texts, size \in 1 .. MaxChunkSize :
         sap = [text |-> text,
                params |-> [chunk_size_words |-> size,
                            chunk_overlap_context_words |-> chunk_overlap_context_words,
                            target_wpm |-> DEFAULT_TARGET_WPM, gamma |-> DEFAULT_GAMMA],
                pc |-> "start", items |-> <<>>, chunks |-> <<>>,
                surprisalBits |-> <<>>, ci |-> 0,
                calls |-> <<>>, inFlight |-> {}, warned |-> {},
                progress |-> <<>>, durations |-> <<>>]

\* the scoring call in flight resolves with tokens that cover the chunk text
ResolveCovering ==
    /\ sap.pc = "await"
    /\ \E content \in CoveringContents(chunkTextOf(sap, sap.ci)) :
         sap' = onResolved(sap, scoredTokens(content))
    /\ UNCHANGED ReaderVars

AlignNext == ProcessText \/ ResolveCovering

SpecAlign == AlignInit /\ [][AlignNext]_vars

\* where the j-th word of the chunk text of chunk ci starts in the chunk
\* text, j from 1
RECURSIVE wordStartInChunk(_, _, _)
wordStartInChunk(s, ci, j) ==
    IF j = 1 THEN 0
    ELSE wordStartInChunk(s, ci, j - 1)
           + Len(s.items[s.chunks[ci + 1].startItem + j - 1].text) + 1

\* the token lies wholly inside the j-th word of the chunk text
InsideWord(s, ci, j, token) ==
    LET wordStart == wordStartInChunk(s, ci, j)
        wordEnd == wordStart + Len(s.items[s.chunks[ci + 1].startItem + j].text)
    IN  wordStart <= token.startChar /\ token.endChar <= wordEnd

\* what the claim asks of the alignment of lmTokens, the reply for the chunk
\* in flight, which leads from surprisalBits to surprisalAfter
CreditedToOwnWord(s, lmTokens, surprisalAfter) ==
    LET chunk == s.chunks[s.ci + 1]
        chunkStartChar == s.items[chunk.startItem + 1].startChar
        tokenToItem == alignTokensToItems(s.items, lmTokens, chunkStartChar)
    IN  /\ \A ti \in 1 .. Len(lmTokens) : \A j \in 1 .. chunk.endItem - chunk.startItem :
             InsideWord(s, s.ci, j, lmTokens[ti]) => tokenToItem[ti] = chunk.startItem + j - 1
        /\ \A i \in 1 .. Len(s.items) :
             (\A ti \in 1 .. Len(lmTokens) : tokenToItem[ti] # i - 1)
                 => surprisalAfter[i] = s.surprisalBits[i]

\* C26: when the scored tokens of a chunk cover the chunk text with offsets
\* from the chunk text's start, a token that lies wholly inside the j-th word
\* of the chunk text is credited to the j-th item of the chunk, and a token
\* that overlaps no item adds nothing, whatever the white space of the text.
C26_TokensCreditedToOwnWord ==
    [][sap.pc = "await" =>
         \A content \in CoveringContents(chunkTextOf(sap, sap.ci)) :
             sap' = onResolved(sap, scoredTokens(content))
                 => CreditedToOwnWord(sap, scoredTokens(content), sap'.surprisalBits)]_vars

\* ------------------------------------------ more of the scheduler (Spec)

\* C27: in every state of a started scheduler with n items,
\* 0 <= currentIndex <= n - 1, whatever the order of timer fires, moves back
\* and forth, pauses, parameter changes and quiz answers; a move before the
\* first item or past the last one is left out without an error.
C27_CurrentIndexInBounds ==
    Started => (rd.currentIndex >= 0 /\ rd.currentIndex <= nWords - 1)

\* C27 happens: the last of several items is on display with its timer
\* pending, where a move forward and a timer fire both meet the end
C27_Witness ==
    /\ Playing /\ rd.timer = "pending"
    /\ nWords = MaxWords /\ rd.currentIndex = nWords - 1

\* C28: in every reachable state score <= questionIndex, the number of quiz
\* prompts answered so far, and questionIndex <= the number of configured
\* quiz entries, whatever the order of key presses, timer fires and moves.
C28_ScoreWithinQuizIndex ==
    /\ rd.score <= rd.questionIndex
    /\ rd.questionIndex <= Len(questionPositions)

\* ------------------------------------ more of live pacing (SpecPacing)

\* C29: for every schedule value within [min_ms, max_ms], every original
\* target WPM and gamma, and every live WPM and gamma the keys can reach, the
\* duration armed on the presentation timer is a positive number of
\* milliseconds.
C29_DurationPositive ==
    (Playing /\ rd.timer = "pending") => delay(rd) > 0

\* ------------------------------------------------ termination (SpecLive)
\*
\* The scheduler of Spec without its clock, under fairness: a timer that is
\* armed again and again eventually fires, a paused user eventually resumes,
\* and a prompt is eventually answered with a valid choice.

LiveNext ==
    \/ Start
    \/ Keypress
    \/ KeypressDigit
    \/ Signal
    \/ TimerFire
    \/ OrphanFire
    \/ TrailingFire
    \/ FeedbackFire

\* the user resumes a paused session
Resume ==
    /\ rd.stdinFlowing /\ rd.paused /\ ~rd.inQuestionMode
    /\ rd' = onKeypress(rd, "space", NaN)
    /\ UNCHANGED <<Config, now, startError>>

\* the user answers the prompt shown with one of its choices
ValidAnswer ==
    /\ rd.stdinFlowing /\ rd.inQuestionMode
    /\ \E num \in 1 .. NumChoices : rd' = onKeypress(rd, "digit", num)
    /\ Within(rd')
    /\ UNCHANGED <<Config, now, startError>>

\* the user moves back by an item
BackwardStep ==
    /\ rd.stdinFlowing /\ ~rd.inQuestionMode
    /\ rd' = onKeypress(rd, "left", NaN)
    /\ rd'.currentIndex < rd.currentIndex
    /\ UNCHANGED <<Config, now, startError>>

SpecLive ==
    /\ Init /\ [][LiveNext]_vars
    /\ SF_vars(TimerFire) /\ WF_vars(OrphanFire)
    /\ WF_vars(TrailingFire) /\ WF_vars(FeedbackFire)
    /\ WF_vars(Resume) /\ WF_vars(ValidAnswer)

====
